---- MODULE Spec2Model ----
(***************************************************************************)
(* A model of certitude's dashboard callbacks (src/certitude/main.py):     *)
(* process_file, update_columns_and_functionality and display_result,      *)
(* together with the pandas operations they call (read_csv, select_dtypes, *)
(* mean, median, std, mode, nunique) and the "{:.2f}" rendering.           *)
(*                                                                         *)
(* A CSV file is a header and columns of text tokens; read_csv infers the  *)
(* dtype of every column from its tokens.  A rendered number is a sequence *)
(* of one-character strings.                                               *)
(***************************************************************************)
EXTENDS Integers, Sequences, FiniteSets, TLC

VARIABLES
    disk,       \* content of the file at DataPath (the file system)
    stored,     \* dcc.Store "stored-columns": its data
    request,    \* inputs of the most recent callback invocation
    output,     \* what that invocation returned (or the exception that escaped)
    submitted   \* history: the file as read by the latest process_file, if it read one

vars == <<disk, stored, request, output, submitted>>

-----------------------------------------------------------------------------
(* Bounds *)

MaxRows == 3        \* data rows of a generated CSV file
MaxClicks == 1      \* largest n_clicks value a submission carries

-----------------------------------------------------------------------------
(* Values *)

\* Python's None and the empty string are both falsy; every test the code
\* makes on its inputs is a truthiness test, so one value stands for both.
NoneValue == ""

Truthy(s) == s # NoneValue

DataPath == "data.csv"
GonePath == "gone.csv"
FilePaths == {NoneValue, DataPath, GonePath}

SelectableColumns == {NoneValue, "x", "y"}

NumericalOperations == <<"mean", "median", "std">>
NonNumericalOperations == <<"mode", "unique">>
UnknownOperation == "range"
NumericalOperationInputs == {NoneValue, "mean", "median", "std", UnknownOperation}
NonNumericalOperationInputs == {NoneValue, "mode", "unique", UnknownOperation}
ColumnTypeInputs == {NoneValue, "numerical", "non_numerical"}

Range(s) == {s[i] : i \in DOMAIN s}

-----------------------------------------------------------------------------
(* CSV tokens and their parsing by read_csv *)

NA == "NA"
NumberTokens == {"1", "12"}
BoolTokens == {"True"}
TextTokens == {"a", "b"}

\* The number a token parses to (True counts as 1 in arithmetic).
NumOf(tok) ==
    CASE tok = "1" -> 1
      [] tok = "12" -> 12
      [] tok = "True" -> 1
      [] OTHER -> 0

\* The sort order of values within one column: numbers by value, strings by
\* code point (digits < upper case < lower case).
Rank(tok) ==
    CASE tok = "1" -> 1
      [] tok = "12" -> 2
      [] tok = "True" -> 3
      [] tok = "a" -> 4
      [] tok = "b" -> 5
      [] OTHER -> 0

NonMissing(col) == SelectSeq(col, LAMBDA t : t # NA)

\* dtype inference of pandas.read_csv for one column of tokens.
InferDtype(col) ==
    IF Len(col) = 0 THEN "object"
    ELSE IF Range(col) \subseteq NumberTokens THEN "int64"
    ELSE IF Range(col) \subseteq NumberTokens \cup {NA} THEN "float64"
    ELSE IF Range(col) \subseteq BoolTokens THEN "bool"
    ELSE "object"

\* Files
OkFile(header, cols) == [state |-> "ok", header |-> header, cols |-> cols]
MissingFile == [state |-> "missing", header |-> <<>>, cols |-> <<>>]
MalformedFile == [state |-> "malformed", header |-> <<>>, cols |-> <<>>]
NoFile == [state |-> "none", header |-> <<>>, cols |-> <<>>]

\* Exceptions
NoExc == [exc |-> "", arg |-> ""]
Exc(class, arg) == [exc |-> class, arg |-> arg]

\* The exception pd.read_csv(path) raises on file system fs, NoExc if none.
read_csv_error(fs, path) ==
    IF path # DataPath THEN Exc("FileNotFoundError", path)
    ELSE CASE fs.state = "missing" -> Exc("FileNotFoundError", path)
           [] fs.state = "malformed" -> Exc("ParserError", path)
           [] OTHER -> NoExc

\* The DataFrame pd.read_csv(path) returns when it raises nothing.
read_csv(fs, path) ==
    [columns |-> fs.header,
     dtypes |-> [i \in DOMAIN fs.header |-> InferDtype(fs.cols[i])],
     values |-> fs.cols]

HasColumn(df, c) == c \in Range(df.columns)
ColumnIndex(df, c) == CHOOSE i \in DOMAIN df.columns : df.columns[i] = c
ColumnValues(df, c) == df.values[ColumnIndex(df, c)]
ColumnDtype(df, c) == df.dtypes[ColumnIndex(df, c)]

\* GetItem, were an absent name to give an empty column instead of raising
\* (as df.get or reindex does).
GetItemOrEmpty(df, c) ==
    IF HasColumn(df, c)
    THEN [e |-> NoExc,
          series |-> [dtype |-> ColumnDtype(df, c), values |-> ColumnValues(df, c)]]
    ELSE [e |-> NoExc, series |-> [dtype |-> "object", values |-> <<>>]]

\* df[c]: the column as a Series, or the KeyError an absent name raises.
GetItem(df, c) ==
    IF HasColumn(df, c)
    THEN [e |-> NoExc,
          series |-> [dtype |-> ColumnDtype(df, c), values |-> ColumnValues(df, c)]]
    ELSE [e |-> Exc("KeyError", c), series |-> [dtype |-> "object", values |-> <<>>]]

-----------------------------------------------------------------------------
(* class Expectation *)

SelectDtypes(df, included) ==
    SelectSeq(df.columns, LAMBDA c : ColumnDtype(df, c) \in included)

find_numerical_columns(df) == SelectDtypes(df, {"int64", "float64"})

find_object_columns(df) == SelectDtypes(df, {"object"})

-----------------------------------------------------------------------------
(* Arithmetic on a column's values *)

RECURSIVE Sum(_)
Sum(s) == IF Len(s) = 0 THEN 0 ELSE Head(s) + Sum(Tail(s))

RECURSIVE SumSq(_)
SumSq(s) == IF Len(s) = 0 THEN 0 ELSE Head(s) * Head(s) + SumSq(Tail(s))

RECURSIVE Insert(_, _)
Insert(v, s) ==
    IF Len(s) = 0 THEN <<v>>
    ELSE IF v <= Head(s) THEN <<v>> \o s
    ELSE <<Head(s)>> \o Insert(v, Tail(s))

RECURSIVE Sort(_)
Sort(s) == IF Len(s) = 0 THEN <<>> ELSE Insert(Head(s), Sort(Tail(s)))

\* A float result: not-a-number, the rational num/den, or sqrt(num/den).
NaN == [kind |-> "nan", num |-> 0, den |-> 1]
Rat(num, den) == [kind |-> "rat", num |-> num, den |-> den]
Sqrt(num, den) == [kind |-> "sqrt", num |-> num, den |-> den]

\* Series.mean / median / std over the non-missing values (skipna=True).
Mean(vals) == IF Len(vals) = 0 THEN NaN ELSE Rat(Sum(vals), Len(vals))

Median(vals) ==
    LET s == Sort(vals)
        n == Len(s)
    IN  IF n = 0 THEN NaN
        ELSE IF n % 2 = 1 THEN Rat(s[(n + 1) \div 2], 1)
        ELSE Rat(s[n \div 2] + s[n \div 2 + 1], 2)

\* Sample standard deviation (ddof=1): NaN unless two values or more.
Std(vals) ==
    LET n == Len(vals)
    IN  IF n <= 1 THEN NaN
        ELSE Sqrt(n * SumSq(vals) - Sum(vals) * Sum(vals), n * (n - 1))

-----------------------------------------------------------------------------
(* format(value, ".2f") *)

DigitChars == <<"0", "1", "2", "3", "4", "5", "6", "7", "8", "9">>
Digit(d) == DigitChars[d + 1]

RECURSIVE DigitsOf(_)
DigitsOf(n) ==
    IF n < 10 THEN <<Digit(n)>> ELSE DigitsOf(n \div 10) \o <<Digit(n % 10)>>

\* num/den rounded to the nearest integer, ties to even.
RoundHalfEven(num, den) ==
    LET q == num \div den
        r == num % den
    IN  IF 2 * r < den THEN q
        ELSE IF 2 * r > den THEN q + 1
        ELSE IF q % 2 = 0 THEN q ELSE q + 1

\* The largest k in lo..hi-1 with k - 1/2 <= 100*sqrt(num/den), by bisection
\* (lo satisfies it, hi does not).
RECURSIVE RoundSqrt(_, _, _, _)
RoundSqrt(num, den, lo, hi) ==
    IF hi - lo <= 1 THEN lo
    ELSE LET mid == (lo + hi) \div 2
         IN  IF (2 * mid - 1) * (2 * mid - 1) * den <= 40000 * num
             THEN RoundSqrt(num, den, mid, hi)
             ELSE RoundSqrt(num, den, lo, mid)

\* The value in hundredths, rounded as the formatting rounds it.
Hundredths(v) ==
    IF v.kind = "rat" THEN RoundHalfEven(100 * v.num, v.den)
    ELSE RoundSqrt(v.num, v.den, 0, 100 * (v.num \div v.den + 1) + 1)

NanText == <<"n", "a", "n">>

\* FormatFixed2, were the value rounded to two places and then printed in
\* its shortest form (str(round(value, 2))): a trailing zero is dropped.
FormatRounded(v) ==
    IF v.kind = "nan" THEN NanText
    ELSE LET h == Hundredths(v)
         IN  DigitsOf(h \div 100) \o <<".">>
                \o (IF h % 10 = 0 THEN <<Digit((h % 100) \div 10)>>
                    ELSE <<Digit((h % 100) \div 10), Digit(h % 10)>>)

FormatFixed2(v) ==
    IF v.kind = "nan" THEN NanText
    ELSE LET h == Hundredths(v)
         IN  DigitsOf(h \div 100) \o <<".">>
                \o <<Digit((h % 100) \div 10), Digit(h % 10)>>

-----------------------------------------------------------------------------
(* Series reductions as display_result calls them *)

\* Whether mean/median/std can convert the column's values: numeric and bool
\* columns, and object columns holding no string (an empty column, or bools
\* with missing values).  A string value makes the reduction raise TypeError.
Reducible(series) ==
    \/ series.dtype \in {"int64", "float64", "bool"}
    \/ Range(NonMissing(series.values)) \subseteq BoolTokens

NumericValues(series) ==
    LET toks == NonMissing(series.values)
    IN  [i \in DOMAIN toks |-> NumOf(toks[i])]

Count(col, v) == Len(SelectSeq(col, LAMBDA t : t = v))

RECURSIVE InsertByRank(_, _)
InsertByRank(v, s) ==
    IF Len(s) = 0 THEN <<v>>
    ELSE IF Rank(v) <= Rank(Head(s)) THEN <<v>> \o s
    ELSE <<Head(s)>> \o InsertByRank(v, Tail(s))

RECURSIVE SortByRank(_)
SortByRank(s) ==
    IF Len(s) = 0 THEN <<>> ELSE InsertByRank(Head(s), SortByRank(Tail(s)))

\* The distinct values of col in order of first occurrence.
RECURSIVE Distinct(_)
Distinct(col) ==
    IF Len(col) = 0 THEN <<>>
    ELSE LET init == Distinct(SubSeq(col, 1, Len(col) - 1))
             last == col[Len(col)]
         IN  IF last \in Range(init) THEN init ELSE Append(init, last)

\* Mode, were the values of highest count left in order of first occurrence.
ModeUnsorted(col) ==
    LET present == NonMissing(col)
        values == Distinct(present)
    IN  SelectSeq(values,
            LAMBDA v : \A w \in Range(values) : Count(present, w) <= Count(present, v))

\* Series.mode(): the non-missing values of highest count, sorted.
Mode(col) ==
    LET present == NonMissing(col)
        values == Distinct(present)
        top == SelectSeq(values,
                   LAMBDA v : \A w \in Range(values) : Count(present, w) <= Count(present, v))
    IN  SortByRank(top)

\* Series.nunique(): the number of distinct non-missing values.
NUnique(col) == Cardinality(Range(NonMissing(col)))

-----------------------------------------------------------------------------
(* What a callback returns *)

BlankOutput ==
    [raised |-> FALSE,      \* an exception escaped the callback
     read |-> FALSE,        \* the callback called pd.read_csv
     kind |-> "none",       \* "card", "message", "error", "stat", "offer", "blank"
     text |-> "",           \* the fixed text of a card or message
     exc |-> "", arg |-> "",            \* the exception an error text reports
     op |-> "", column |-> "",          \* "The {op} of {column} is ..."
     value |-> <<>>,        \* a numerical result as rendered
     val |-> "",            \* the value mode returns
     count |-> 0,           \* the number unique returns
     options |-> <<>>,      \* columns offered for selection
     operations |-> <<>>]   \* operations offered for selection

Message(text) == [BlankOutput EXCEPT !.kind = "message", !.text = text]
Card(title, text) == [BlankOutput EXCEPT !.kind = "card", !.text = text, !.op = title]
ErrorText(prefix, e) ==
    [BlankOutput EXCEPT !.kind = "error", !.text = prefix, !.exc = e.exc, !.arg = e.arg]
Escaped(e) == [BlankOutput EXCEPT !.raised = TRUE, !.exc = e.exc, !.arg = e.arg]
Stat(op, column) == [BlankOutput EXCEPT !.kind = "stat", !.op = op, !.column = column]

\* The outcome of a try body: the exception it raised (NoExc if none) and
\* the value it returned.
Returns(out) == [e |-> NoExc, out |-> out]
Raises(e) == [e |-> e, out |-> BlankOutput]

EmptyStore ==
    [keys |-> {}, numerical |-> <<>>, non_numerical |-> <<>>, file_path |-> NoneValue]

-----------------------------------------------------------------------------
(* process_file *)

\* "except Exception" of process_file
CaughtInProcessFile(e) == TRUE

\* FailureData, were a failed submission to leave the store as it is
\* (dash.no_update).
FailureKeepsStore == stored

\* The store data process_file returns when it loads nothing: {}.
FailureData == EmptyStore

process_file(n_clicks, file_path, fs) ==
    IF n_clicks > 0 /\ Truthy(file_path)
    THEN LET e == read_csv_error(fs, file_path)
             df == read_csv(fs, file_path)
         IN  IF e = NoExc
             THEN [out |-> [Card("File Loaded Successfully", "column-type-dropdown")
                               EXCEPT !.read = TRUE,
                                      !.options = <<"numerical", "non_numerical">>],
                   data |-> [keys |-> {"numerical", "non_numerical", "file_path"},
                             numerical |-> find_numerical_columns(df),
                             non_numerical |-> find_object_columns(df),
                             file_path |-> file_path]]
             ELSE IF CaughtInProcessFile(e)
             THEN [out |-> [ErrorText("Failed to read file: ", e) EXCEPT !.read = TRUE],
                   data |-> FailureData]
             ELSE [out |-> [Escaped(e) EXCEPT !.read = TRUE], data |-> stored]
    ELSE [out |-> Card("Error", "Please provide a valid file path."),
          data |-> FailureData]

-----------------------------------------------------------------------------
(* update_columns_and_functionality *)

StoredGet(stored_columns, key) ==
    CASE key = "numerical" -> stored_columns.numerical
      [] key = "non_numerical" -> stored_columns.non_numerical
      [] OTHER -> <<>>

update_columns_and_functionality(selected_type, stored_columns) ==
    IF Truthy(selected_type) /\ stored_columns.keys # {}
    THEN LET columns == StoredGet(stored_columns, selected_type)
         IN  IF Len(columns) = 0
             THEN [Card("Error", "No columns found.") EXCEPT !.column = selected_type]
             ELSE [BlankOutput EXCEPT
                      !.kind = "offer",
                      !.options = columns,
                      !.operations = IF selected_type = "numerical"
                                     THEN NumericalOperations
                                     ELSE NonNumericalOperations]
    ELSE [BlankOutput EXCEPT !.kind = "blank"]

-----------------------------------------------------------------------------
(* display_result *)

\* The branch "if numerical_operation:".
NumericalResult(df, selected_column, numerical_operation) ==
    LET column == GetItem(df, selected_column)
    IN  IF column.e # NoExc THEN Raises(column.e)
        ELSE IF numerical_operation \notin Range(NumericalOperations)
        THEN Raises(Exc("KeyError", numerical_operation))
        ELSE IF ~Reducible(column.series)
        THEN Raises(Exc("TypeError", selected_column))
        ELSE
         LET vals == NumericValues(column.series)
             v == CASE numerical_operation = "mean" -> Mean(vals)
                    [] numerical_operation = "median" -> Median(vals)
                    [] OTHER -> Std(vals)
         IN  Returns([Stat(numerical_operation, selected_column)
                         EXCEPT !.value = FormatFixed2(v)])

\* The branch "elif non_numerical_operation:".
NonNumericalResult(df, selected_column, non_numerical_operation) ==
    LET column == GetItem(df, selected_column)
    IN  IF non_numerical_operation \notin Range(NonNumericalOperations)
        THEN Raises(Exc("KeyError", non_numerical_operation))
        ELSE IF column.e # NoExc THEN Raises(column.e)
        ELSE IF non_numerical_operation = "mode"
        THEN LET modes == Mode(column.series.values)
             IN  IF Len(modes) = 0
                 THEN Raises(Exc("KeyError", "0"))
                 ELSE Returns([Stat("mode", selected_column) EXCEPT !.val = modes[1]])
        ELSE Returns([Stat("unique", selected_column)
                         EXCEPT !.count = NUnique(column.series.values)])

\* LoadForRequest, were the table kept from the submission and reused.
LoadFromSubmission(fs, file_path) == read_csv(submitted, file_path)

\* The table a statistic request computes on: read again from the path.
LoadForRequest(fs, file_path) == read_csv(fs, file_path)

\* SelectBranch, were the categorical operation tested first.
SelectBranchCategoricalFirst(df, selected_column, numerical_operation, non_numerical_operation) ==
    IF Truthy(non_numerical_operation)
    THEN NonNumericalResult(df, selected_column, non_numerical_operation)
    ELSE IF Truthy(numerical_operation)
    THEN NumericalResult(df, selected_column, numerical_operation)
    ELSE Returns(Message("Please select a valid operation."))

\* The operation display_result applies, by precedence.
SelectBranch(df, selected_column, numerical_operation, non_numerical_operation) ==
    IF Truthy(numerical_operation)
    THEN NumericalResult(df, selected_column, numerical_operation)
    ELSE IF Truthy(non_numerical_operation)
    THEN NonNumericalResult(df, selected_column, non_numerical_operation)
    ELSE Returns(Message("Please select a valid operation."))

\* The body of display_result's try statement.
TryBody(selected_column, numerical_operation, non_numerical_operation, file_path, fs) ==
    LET e == read_csv_error(fs, file_path)
        df == LoadForRequest(fs, file_path)
    IN  IF e # NoExc THEN Raises(e)
        ELSE IF ~Truthy(selected_column)
        THEN Returns(Message("Please select a column."))
        ELSE SelectBranch(df, selected_column, numerical_operation,
                          non_numerical_operation)

\* CaughtInDisplayResult, were the handler written for the errors of the
\* computation only: "except (KeyError, TypeError)".
CaughtIfComputationError(e) == e.exc \in {"KeyError", "TypeError"}

\* "except Exception" of display_result
CaughtInDisplayResult(e) == TRUE

display_result(selected_column, numerical_operation, non_numerical_operation, stored_columns, fs) ==
    IF stored_columns.keys = {} \/ "file_path" \notin stored_columns.keys
    THEN Message("Error: File path not available.")
    ELSE LET body == TryBody(selected_column, numerical_operation,
                             non_numerical_operation, stored_columns.file_path, fs)
         IN  IF body.e = NoExc THEN [body.out EXCEPT !.read = TRUE]
             ELSE IF CaughtInDisplayResult(body.e)
             THEN [ErrorText("Error: ", body.e) EXCEPT !.read = TRUE]
             ELSE [Escaped(body.e) EXCEPT !.read = TRUE]

-----------------------------------------------------------------------------
(* Files the file system may hold *)

ConstantColumn(n, tok) == [i \in 1..n |-> tok]
SecondColumnTokens == {"True"}

FirstColumnTokens == {NA} \cup NumberTokens \cup TextTokens

\* Every file of one to MaxRows rows with the one column x of numbers, text
\* and missing values, and every such file of fewer than MaxRows rows with a
\* second column y that repeats one token.
GeneratedFiles ==
    UNION { { OkFile(<<"x">>, <<c>>) : c \in [1..n -> FirstColumnTokens] }
          : n \in 1..MaxRows }
    \cup
    UNION { { OkFile(<<"x", "y">>, <<c, ConstantColumn(n, t)>>) :
                 c \in [1..n -> FirstColumnTokens], t \in SecondColumnTokens }
          : n \in 1..(MaxRows - 1) }

\* The files a session's source alternates between.
SessionFiles ==
    { MissingFile,
      MalformedFile,
      OkFile(<<"x">>, << <<"1", "12">> >>),
      OkFile(<<"x">>, << <<"b", "a">> >>),
      OkFile(<<"x">>, << <<"True", "True">> >>),
      OkFile(<<"y">>, << <<"1", "NA">> >>),
      OkFile(<<"y">>, << <<"True", "NA">> >>),
      OkFile(<<"x", "y">>, << <<"a", "a">>, <<"12", "1">> >>),
      OkFile(<<"x", "y">>, << <<"NA", "NA">>, <<"b", "a">> >>),
      OkFile(<<"x", "y">>, << <<>>, <<>> >>) }

-----------------------------------------------------------------------------
(* The state machine *)

NoRequest ==
    [cb |-> "none", n_clicks |-> 0, file_path |-> NoneValue,
     selected_type |-> NoneValue, selected_column |-> NoneValue,
     numerical_operation |-> NoneValue, non_numerical_operation |-> NoneValue]

Start ==
    /\ stored = EmptyStore
    /\ request = NoRequest
    /\ output = BlankOutput
    /\ submitted = NoFile

Init == disk \in SessionFiles /\ Start

InitStat == disk \in GeneratedFiles /\ Start

\* The user submits a file path: callback process_file.
ProcessFile ==
    \E n_clicks \in 0..MaxClicks, file_path \in FilePaths :
        LET r == process_file(n_clicks, file_path, disk)
        IN  /\ output' = r.out
            /\ stored' = r.data
            /\ request' = [NoRequest EXCEPT !.cb = "process_file",
                                            !.n_clicks = n_clicks,
                                            !.file_path = file_path]
            /\ submitted' = IF n_clicks > 0 /\ Truthy(file_path)
                               /\ read_csv_error(disk, file_path) = NoExc
                            THEN disk ELSE NoFile
            /\ UNCHANGED disk

\* The user picks a column type: callback update_columns_and_functionality.
UpdateColumns ==
    \E selected_type \in ColumnTypeInputs :
        /\ output' = update_columns_and_functionality(selected_type, stored)
        /\ request' = [NoRequest EXCEPT !.cb = "update_columns_and_functionality",
                                        !.selected_type = selected_type]
        /\ UNCHANGED <<disk, stored, submitted>>

\* The user picks a column or an operation: callback display_result.
DisplayResult ==
    \E selected_column \in SelectableColumns,
       numerical_operation \in NumericalOperationInputs,
       non_numerical_operation \in NonNumericalOperationInputs :
        /\ output' = display_result(selected_column, numerical_operation,
                                    non_numerical_operation, stored, disk)
        /\ request' = [NoRequest EXCEPT
                          !.cb = "display_result",
                          !.selected_column = selected_column,
                          !.numerical_operation = numerical_operation,
                          !.non_numerical_operation = non_numerical_operation]
        /\ UNCHANGED <<disk, stored, submitted>>

\* The source file is replaced, removed or damaged on disk.
FileChanges ==
    \E f \in SessionFiles :
        /\ f # disk
        /\ disk' = f
        /\ UNCHANGED <<stored, request, output, submitted>>

Next == ProcessFile \/ UpdateColumns \/ DisplayResult \/ FileChanges

Spec == Init /\ [][Next]_vars

NextStat == ProcessFile \/ UpdateColumns \/ DisplayResult

SpecStat == InitStat /\ [][NextStat]_vars

-----------------------------------------------------------------------------
(* Properties.  Under SpecStat the file never changes, so the table a      *)
(* request read is the table on disk.                                      *)

IsDisplay == request.cb = "display_result"
Loaded == stored.keys # {}
ReadOk == Loaded /\ read_csv_error(disk, stored.file_path) = NoExc
TableRead == read_csv(disk, stored.file_path)

\* The operation identifier the request asks for: the numerical one if set.
RequestedOperation ==
    IF Truthy(request.numerical_operation) THEN request.numerical_operation
    ELSE request.non_numerical_operation

\* A statistic request for a column, computed on a table that was read.
StatisticRequest ==
    /\ IsDisplay
    /\ ReadOk
    /\ Truthy(request.selected_column)
    /\ Truthy(RequestedOperation)

ColumnRead == GetItem(TableRead, request.selected_column).series
PresentValues == NonMissing(ColumnRead.values)

\* C1: every column of a loaded table is in exactly one of the numeric and
\* the categorical list: the lists are disjoint and together hold every column.
C1_ClassificationPartitions ==
    (request.cb = "process_file" /\ ReadOk) =>
        /\ Range(stored.numerical) \cap Range(stored.non_numerical) = {}
        /\ Range(stored.numerical) \cup Range(stored.non_numerical)
              = Range(TableRead.columns)

\* C2: a categorical operation on a numeric column, or a numeric operation on
\* a categorical column, ends in an error and returns no statistic.
C2_MismatchedOperationFails ==
    (StatisticRequest /\ HasColumn(TableRead, request.selected_column)) =>
        LET numeric == request.selected_column \in Range(find_numerical_columns(TableRead))
            categorical == request.selected_column \in Range(find_object_columns(TableRead))
            mismatch ==
                \/ numeric /\ RequestedOperation \in Range(NonNumericalOperations)
                \/ categorical /\ RequestedOperation \in Range(NumericalOperations)
        IN  mismatch => output.kind = "error"

\* C3: a statistic request naming a column the table read does not have ends,
\* for every operation identifier, in an error message reporting a KeyError
\* (naming the column when the identifier is a known one), and no exception
\* escapes.
C3_UnknownColumnIsAnError ==
    (StatisticRequest /\ ~HasColumn(TableRead, request.selected_column)) =>
        /\ ~output.raised
        /\ output.kind = "error"
        /\ output.exc = "KeyError"
        /\ RequestedOperation # UnknownOperation => output.arg = request.selected_column

C3_Witness ==
    /\ StatisticRequest
    /\ ~HasColumn(TableRead, request.selected_column)
    /\ request.non_numerical_operation = "mode"
    /\ ~Truthy(request.numerical_operation)
    /\ output.kind = "error" /\ output.arg = "y"

\* C4: on a column that exists and has no non-missing value, mean, median,
\* std and mode each end in an error, not in a statistic.
C4_EmptyColumnFails ==
    (/\ StatisticRequest
     /\ HasColumn(TableRead, request.selected_column)
     /\ Len(PresentValues) = 0
     /\ RequestedOperation \in {"mean", "median", "std", "mode"})
        => output.kind = "error"

\* The mode request of C5: mode on a categorical column with a value present.
ModeRequest ==
    /\ StatisticRequest
    /\ request.selected_column \in Range(find_object_columns(TableRead))
    /\ Len(PresentValues) > 0
    /\ RequestedOperation = "mode"

MostFrequent(col) ==
    {v \in Range(col) : \A w \in Range(col) : Count(col, w) <= Count(col, v)}

FirstIndex(col, v) == CHOOSE i \in DOMAIN col : col[i] = v /\ \A j \in 1..(i - 1) : col[j] # v

\* C5 as stated: mode returns a most frequent value, and among several the
\* one that occurs first in the column.
C5_ModeIsFirstOccurring ==
    ModeRequest =>
        /\ output.kind = "stat"
        /\ output.val \in MostFrequent(PresentValues)
        /\ \A w \in MostFrequent(PresentValues) :
              FirstIndex(PresentValues, output.val) <= FirstIndex(PresentValues, w)

\* C5 as amended: mode returns a most frequent value, and among several the
\* smallest in sort order, wherever each first occurs.
C5_ModeIsSmallest ==
    ModeRequest =>
        /\ output.kind = "stat"
        /\ output.val \in MostFrequent(PresentValues)
        /\ \A w \in MostFrequent(PresentValues) : Rank(output.val) <= Rank(w)

C5_Witness ==
    /\ ModeRequest
    /\ Cardinality(MostFrequent(PresentValues)) = 2
    /\ output.val = "a"
    /\ PresentValues[1] = "b"

\* A rendering with exactly two digits after the decimal point.
IsDigit(ch) == ch \in Range(DigitChars)

TwoDecimals(text) ==
    /\ Len(text) >= 4
    /\ text[Len(text) - 2] = "."
    /\ \A i \in DOMAIN text : i # Len(text) - 2 => IsDigit(text[i])

NumericalStat ==
    /\ IsDisplay
    /\ output.kind = "stat"
    /\ output.op \in Range(NumericalOperations)

\* C7 as stated: every result of mean, median or std is rendered with exactly
\* two digits after the decimal point, whatever the number of values.
C7_AlwaysTwoDecimals == NumericalStat => TwoDecimals(output.value)

\* C7 as amended: a result of mean, median or std is rendered with exactly
\* two digits after the decimal point when the column has a non-missing value
\* (two for std), and as "nan", with no decimal point, when it has not.
C7_TwoDecimalsOrNan ==
    NumericalStat =>
        IF Len(PresentValues) = 0 \/ (output.op = "std" /\ Len(PresentValues) <= 1)
        THEN output.value = NanText
        ELSE TwoDecimals(output.value)

C7_Witness ==
    /\ NumericalStat
    /\ output.op = "std"
    /\ Len(PresentValues) = 2
    /\ TwoDecimals(output.value)
    /\ output.value[Len(output.value)] = "0"

\* C10: with a column selected, a numerical operation that is set is the one
\* applied, whatever categorical operation is set with it; the categorical
\* operation is applied only when no numerical one is set; with neither set
\* the result is "Please select a valid operation."
C10_NumericalOperationFirst ==
    (IsDisplay /\ ReadOk /\ Truthy(request.selected_column)) =>
        IF Truthy(request.numerical_operation)
        THEN /\ output = display_result(request.selected_column,
                            request.numerical_operation, NoneValue, stored, disk)
             /\ output.kind \in {"stat", "error"}
             /\ output.kind = "stat" => output.op = request.numerical_operation
        ELSE IF Truthy(request.non_numerical_operation)
        THEN /\ output.kind \in {"stat", "error"}
             /\ output.kind = "stat" => output.op = request.non_numerical_operation
        ELSE output = [Message("Please select a valid operation.") EXCEPT !.read = TRUE]

C10_Witness ==
    /\ IsDisplay /\ ReadOk
    /\ request.selected_column \in Range(find_object_columns(TableRead))
    /\ request.numerical_operation = "mean"
    /\ request.non_numerical_operation = "mode"
    /\ Len(PresentValues) > 0
    /\ output.kind = "error" /\ output.exc = "TypeError"

-----------------------------------------------------------------------------
(* Properties of a session, in which the file changes between callbacks    *)
(* (Spec).  stored changes only in process_file, so while the latest       *)
(* callback is display_result the store is the one that call was given.    *)

\* C6: no exception escapes process_file or display_result: each returns
\* something to show, and an error message when the path does not exist or
\* the operation identifier is unknown.
C6_NoExceptionEscapes ==
    /\ ~output.raised
    /\ request.cb = "process_file" => output.kind \in {"card", "error"}
    /\ IsDisplay => output.kind \in {"message", "stat", "error"}
    /\ (request.cb = "process_file" /\ request.n_clicks > 0
            /\ request.file_path = GonePath) => output.kind = "error"
    /\ (IsDisplay /\ Loaded /\ Truthy(request.selected_column)
            /\ request.numerical_operation = UnknownOperation) => output.kind = "error"

\* The file was read at submission and cannot be read at the request.
C6_Witness ==
    /\ IsDisplay
    /\ submitted.state = "ok"
    /\ output.kind = "error"
    /\ output.exc = "FileNotFoundError"

\* What request req returned, out, is the result for file f: the kind of
\* error when f cannot be read or lacks the column, and the statistic of f's
\* own tokens.
ReflectsFile(req, out, f) ==
    LET c == req.selected_column
        op == IF Truthy(req.numerical_operation) THEN req.numerical_operation
              ELSE req.non_numerical_operation
    IN  /\ out.read
        /\ f.state # "ok" =>
              out.kind = "error" /\ out.exc \in {"FileNotFoundError", "ParserError"}
        /\ (f.state = "ok" /\ Truthy(c) /\ Truthy(op)) =>
              IF c \notin Range(f.header)
              THEN out.kind = "error" /\ out.exc = "KeyError"
              ELSE LET tokens == f.cols[CHOOSE i \in DOMAIN f.header : f.header[i] = c]
                       numbers == [i \in DOMAIN NonMissing(tokens) |->
                                      NumOf(NonMissing(tokens)[i])]
                   IN  /\ op = "unique" =>
                             out.count = Cardinality(Range(tokens) \ {NA})
                       /\ (op = "mean" /\ Len(tokens) > 0
                             /\ Range(tokens) \subseteq NumberTokens) =>
                             out.value = FormatFixed2(Rat(Sum(numbers), Len(numbers)))
                       /\ (op \in Range(NumericalOperations)
                             /\ Range(tokens) \cap TextTokens # {}) =>
                             out.exc = "TypeError"

\* A step of display_result: the one action that leaves the file alone and
\* makes display_result the latest callback.
IsDisplayStep == request'.cb = "display_result" /\ disk' = disk

\* C8: a statistic request reads the file again from the stored path, so its
\* result is that of the file's content at the request; and it leaves the
\* stored classification as it is.
C8_RequestReadsCurrentFile ==
    [][IsDisplayStep =>
          /\ stored' = stored
          /\ Loaded => ReflectsFile(request', output', disk)]_vars

\* A column the stored classification offers as numerical is absent from the
\* table the statistic was computed on.
C8_Witness ==
    /\ IsDisplay
    /\ request.selected_column \in Range(stored.numerical)
    /\ Truthy(RequestedOperation)
    /\ output.kind = "error"
    /\ output.exc = "KeyError"
    /\ output.arg = request.selected_column

\* C9: the store holds a path and column lists exactly when the latest
\* process_file read its file; a submission with no click, no path or a
\* failed read leaves the store empty; on an empty store display_result
\* answers "Error: File path not available." without reading a file and
\* update_columns_and_functionality offers nothing.
C9_StoreFollowsLatestSubmission ==
    /\ Loaded <=> submitted.state = "ok"
    /\ Loaded => /\ stored.keys = {"numerical", "non_numerical", "file_path"}
                 /\ Truthy(stored.file_path)
    /\ ~Loaded => stored = EmptyStore
    /\ (request.cb = "process_file"
          /\ (request.n_clicks = 0 \/ ~Truthy(request.file_path) \/ output.kind = "error"))
          => ~Loaded
    /\ (IsDisplay /\ ~Loaded) => output = Message("Error: File path not available.")
    /\ (request.cb = "update_columns_and_functionality" /\ ~Loaded)
          => output.options = <<>> /\ output.operations = <<>>

\* A submission whose read failed has emptied the store.
C9_Witness ==
    /\ request.cb = "process_file"
    /\ request.n_clicks > 0
    /\ request.file_path = DataPath
    /\ output.kind = "error"
    /\ stored = EmptyStore

====
